---- MODULE Spec2Model ----
(***************************************************************************)
(* Model of app/main.py: the SmartForm explain pipeline.                   *)
(*   explain_smartform -> llm_explain_nodes -> merge_consecutive_items     *)
(*                                          -> extract_page_name           *)
(*                                          -> chain.invoke (the engine)   *)
(* Python strings are sequences of one-character strings, so that strip(), *)
(* upper() and lower() are computed rather than assumed.  Node objects     *)
(* live in a heap and lists hold references, so that aliasing and in-place *)
(* mutation (buffer_node.textPayload = ..., attributes.extend) are visible.*)
(***************************************************************************)
EXTENDS Integers, Sequences, FiniteSets, TLC

\* Longest request node list explored.
MaxLen == 4

----------------------------------------------------------------------------
\* Python str helpers

LowerAlpha == <<"a","b","c","d","e","f","g","h","i","j","k","l","m",
                "n","o","p","q","r","s","t","u","v","w","x","y","z">>
UpperAlpha == <<"A","B","C","D","E","F","G","H","I","J","K","L","M",
                "N","O","P","Q","R","S","T","U","V","W","X","Y","Z">>
Whitespace == {" ", "\n", "\t"}

ToUpper == [c \in {LowerAlpha[x] : x \in 1..26} |->
               UpperAlpha[CHOOSE x \in 1..26 : LowerAlpha[x] = c]]
ToLower == [c \in {UpperAlpha[x] : x \in 1..26} |->
               LowerAlpha[CHOOSE x \in 1..26 : UpperAlpha[x] = c]]

UpperChar(c) == IF c \in DOMAIN ToUpper THEN ToUpper[c] ELSE c

LowerChar(c) == IF c \in DOMAIN ToLower THEN ToLower[c] ELSE c

RECURSIVE Upper(_)
Upper(s) == IF s = <<>> THEN <<>> ELSE <<UpperChar(Head(s))>> \o Upper(Tail(s))

RECURSIVE Lower(_)
Lower(s) == IF s = <<>> THEN <<>> ELSE <<LowerChar(Head(s))>> \o Lower(Tail(s))

RECURSIVE LStrip(_)
LStrip(s) ==
    IF s = <<>> THEN <<>>
    ELSE IF Head(s) \in Whitespace THEN LStrip(Tail(s)) ELSE s

RECURSIVE RStrip(_)
RStrip(s) ==
    IF s = <<>> THEN <<>>
    ELSE IF s[Len(s)] \in Whitespace THEN RStrip(SubSeq(s, 1, Len(s) - 1)) ELSE s

Strip(s) == RStrip(LStrip(s))

\* String literals of the source
ITEM     == <<"I","T","E","M">>
PAGE     == <<"P","A","G","E">>
NODETYPE == <<"N","O","D","E","T","Y","P","E">>
PA       == <<"P","A">>
CAPTION  == <<"C","A","P","T","I","O","N">>
INAME    == <<"I","N","A","M","E">>
NameKeys == { <<"n","a","m","e">>, <<"i","n","a","m","e">>,
              <<"c","a","p","t","i","o","n">> }
Newline  == <<"\n">>
Empty    == <<>>

----------------------------------------------------------------------------
\* Request inputs

Attr(n, v) == [name |-> n, value |-> v]

MkNode(id, depth, elemName, nodeType, attributes, textPayload) ==
    [id |-> id, parentId |-> 0, depth |-> depth, path |-> <<"/">>,
     elemName |-> elemName, elemNs |-> Empty, nodeType |-> nodeType,
     attributes |-> attributes, textPayload |-> textPayload]

\* Other strings of the inputs
WINDOW == <<"W","I","N","D","O","W">>
WI     == <<"W","I">>
AttrA  == Attr(<<"k">>, <<"1">>)
AttrB  == Attr(<<"k">>, <<"2">>)
AttrsWithName ==
    << Attr(<<"x">>, <<"y">>),
       Attr(<<"c","a","p","t","i","o","n">>, <<" ">>),
       Attr(<<" ","I","N","a","m","e"," ">>, <<" ","N"," ">>) >>

\* Node shapes exercising the merger: differently spelled ITEM nodes with
\* distinct payloads and attribute lists, and a non-ITEM node (a page marker
\* by nodeType that carries its name in an attribute).
MergeKinds ==
    { MkNode(0, 2, ITEM, Empty, <<AttrA>>, <<"A">>),
      MkNode(0, 2, <<" ","i","t","e","m"," ">>, Empty, <<>>, Empty),
      MkNode(0, 2, <<"I","t","e","m">>, Empty, <<AttrB, AttrA>>, <<"B">>),
      MkNode(0, 1, WINDOW, <<" ","p","a">>, AttrsWithName, <<"w">>) }

\* Node shapes exercising the page name resolver.
PageKinds ==
    { \* page markers: by elemName, and by NODETYPE/PA text
      MkNode(0, 0, PAGE, Empty, <<>>, Empty),
      MkNode(0, 1, <<" ","N","o","d","e","T","y","p","e">>, Empty, <<>>, <<" ","p","a"," ">>),
      \* a page marker by nodeType that carries a name attribute; it is named
      \* Caption too, with a blank payload, so inside another marker's subtree
      \* it is a caption candidate that must be passed over
      MkNode(0, 1, <<"C","a","p","t","i","o","n">>, <<" ","p","a">>, AttrsWithName, <<" ">>),
      \* caption candidates with text, at depth 1 and at depth 2
      MkNode(0, 1, CAPTION, Empty, <<>>, <<" ","T"," ">>),
      MkNode(0, 2, <<" ","i","n","a","m","e">>, Empty, <<>>, <<"U">>),
      \* a node that is neither, and that the merger collapses when repeated
      MkNode(0, 2, ITEM, WI, <<AttrA>>, <<"A">>) }

\* All node lists of length 0..MaxLen over a set of shapes, ids = positions.
ListsOver(kinds) ==
    UNION { { [p \in 1..n |-> [f[p] EXCEPT !.id = p]] : f \in [1..n -> kinds] }
            : n \in 0..MaxLen }

Payloads == ListsOver(MergeKinds) \cup ListsOver(PageKinds)

----------------------------------------------------------------------------
\* State

VARIABLES
    request,       \* the validated payload as received (values; never rewritten)
    heap,          \* Node objects, indexed by reference
    nodes,         \* payload.nodes: the list of references handed to the pipeline
    pc,            \* position of the request in explain_smartform
    merged_nodes,  \* merge_consecutive_items: output list (references)
    buffer_node,   \* merge_consecutive_items: open ITEM run (reference) or None
    k,             \* merge_consecutive_items: position of `for node in nodes`
    i,             \* extract_page_name: outer position (enumerate(nodes))
    j,             \* extract_page_name: subtree scan position
    page_depth,    \* extract_page_name: depth of the marker being resolved
    page_name,     \* llm_explain_nodes: result of extract_page_name
    nodes_data,    \* llm_explain_nodes: the flattened dicts serialised for the engine
    engine_calls,  \* arguments of every chain.invoke made for this request
    rows,          \* value returned by the engine
    responses      \* outcomes the endpoint produced for this request

vars == <<request, heap, nodes, pc, merged_nodes, buffer_node, k, i, j,
          page_depth, page_name, nodes_data, engine_calls, rows, responses>>

None == 0
StatusBadGateway == 502
EngineRows == {"rowsA", "rowsB"}

Init ==
    /\ \E ns \in Payloads :
          /\ request = [formName |-> "F", system |-> "S", client |-> "100", nodes |-> ns]
          /\ heap = ns
          /\ nodes = [p \in 1..Len(ns) |-> p]
    /\ pc = "merge"
    /\ merged_nodes = <<>>
    /\ buffer_node = None
    /\ k = 1
    /\ i = 1
    /\ j = 1
    /\ page_depth = 0
    /\ page_name = Empty
    /\ nodes_data = <<>>
    /\ engine_calls = <<>>
    /\ rows = "none"
    /\ responses = <<>>

----------------------------------------------------------------------------
\* merge_consecutive_items

\* Variant: the name is compared without strip().
IsItemNoStrip(node) == node.elemName # Empty /\ Upper(node.elemName) = ITEM

\* node.elemName and node.elemName.strip().upper() == "ITEM"
IsItem(node) == node.elemName # Empty /\ Upper(Strip(node.elemName)) = ITEM

\* Variant: the run's buffer is the first node itself, not a copy of it.
NodeCopyAlias(h, ref) == [heap |-> h, ref |-> ref]

\* Node(**node.dict()): a fresh object with the same field values.
NodeCopy(h, ref) == [heap |-> Append(h, h[ref]), ref |-> Len(h) + 1]

\* Variant: the later payload is put in front of the buffer's.
MergedTextSwapped(buf, node) == node.textPayload \o Newline \o buf.textPayload

\* (buffer_node.textPayload or "") + "\n" + (node.textPayload or "")
MergedText(buf, node) == buf.textPayload \o Newline \o node.textPayload

\* buffer_node.attributes.extend(node.attributes or [])
MergedAttributes(buf, node) == buf.attributes \o node.attributes

\* `if buffer_node: merged_nodes.append(buffer_node)`
Flush(out, buf) == IF buf # None THEN Append(out, buf) ELSE out

UnchangedAfterMerge ==
    UNCHANGED <<i, j, page_depth, page_name, nodes_data, engine_calls, rows, responses>>

\* An ITEM node with no run open: the run starts with a copy of the node.
MergeItemStart ==
    /\ pc = "merge" /\ k <= Len(nodes)
    /\ IsItem(heap[nodes[k]])
    /\ buffer_node = None
    /\ LET c == NodeCopy(heap, nodes[k]) IN
          /\ heap' = c.heap
          /\ buffer_node' = c.ref
    /\ k' = k + 1
    /\ UNCHANGED <<request, nodes, pc, merged_nodes>>
    /\ UnchangedAfterMerge

\* An ITEM node with a run open: its text and attributes go into the buffer.
MergeItemAppend ==
    /\ pc = "merge" /\ k <= Len(nodes)
    /\ IsItem(heap[nodes[k]])
    /\ buffer_node # None
    /\ LET node == heap[nodes[k]]
           buf  == heap[buffer_node]
           text == MergedText(buf, node)
           hText == [heap EXCEPT ![buffer_node].textPayload = text]
       IN heap' = [hText EXCEPT ![buffer_node].attributes =
                        MergedAttributes(hText[buffer_node], node)]
    /\ k' = k + 1
    /\ UNCHANGED <<request, nodes, pc, merged_nodes, buffer_node>>
    /\ UnchangedAfterMerge

\* A non-ITEM node: flush the open run, then emit the node itself.
MergeOther ==
    /\ pc = "merge" /\ k <= Len(nodes)
    /\ ~IsItem(heap[nodes[k]])
    /\ merged_nodes' = Append(Flush(merged_nodes, buffer_node), nodes[k])
    /\ buffer_node' = None
    /\ k' = k + 1
    /\ UNCHANGED <<request, heap, nodes, pc>>
    /\ UnchangedAfterMerge

\* Variant: no final flush, the run open at the end of input is dropped.
MergeFinalNoFlush ==
    /\ pc = "merge" /\ k > Len(nodes)
    /\ pc' = "merged"
    /\ UNCHANGED <<request, heap, nodes, merged_nodes, buffer_node, k>>
    /\ UnchangedAfterMerge

\* End of input: final flush, return merged_nodes.
MergeFinalFlush ==
    /\ pc = "merge" /\ k > Len(nodes)
    /\ merged_nodes' = Flush(merged_nodes, buffer_node)
    /\ pc' = "merged"
    /\ UNCHANGED <<request, heap, nodes, buffer_node, k>>
    /\ UnchangedAfterMerge

----------------------------------------------------------------------------
\* extract_page_name (called on merged_nodes)

\* elem_upper == "PAGE", or elem_upper == "NODETYPE" and node_text.upper() == "PA",
\* or node.nodeType.strip().upper() == "PA"
IsPageMarker(node) ==
    LET elem_upper == Upper(Strip(node.elemName))
        node_text  == Strip(node.textPayload)
    IN \/ elem_upper = PAGE
       \/ elem_upper = NODETYPE /\ Upper(node_text) = PA
       \/ Upper(Strip(node.nodeType)) = PA

\* nelem in ("CAPTION", "INAME") and ntext
IsCaption(nj) ==
    /\ Upper(Strip(nj.elemName)) \in {CAPTION, INAME}
    /\ Strip(nj.textPayload) # Empty

\* Variant: a node at the marker's own depth still counts as inside.
LeftSubtreeStrict(depth, pd) == depth < pd

\* (nj.depth or 0) <= page_depth: the subtree of the marker has been left
LeftSubtree(depth, pd) == depth <= pd

\* attr.name.strip().lower() in ("name", "iname", "caption") and attr.value.strip()
IsNameAttr(attr) ==
    /\ Lower(Strip(attr.name)) \in NameKeys
    /\ Strip(attr.value) # Empty

\* Position of the first attribute the `for attr in node.attributes` loop returns
\* on, or None.
FirstNameAttr(attrs) ==
    IF \E a \in 1..Len(attrs) : IsNameAttr(attrs[a])
    THEN CHOOSE a \in 1..Len(attrs) :
            /\ IsNameAttr(attrs[a])
            /\ \A b \in 1..(a - 1) : ~IsNameAttr(attrs[b])
    ELSE None

\* Variant: the outer scan goes on after the rejected marker's subtree.
ResumeAfterSubtree(ii, jj) == jj

\* Where the outer `for i, node in enumerate(nodes)` goes on after a marker at
\* ii whose subtree scan stopped at jj yielded nothing.
ResumeAfterFailure(ii, jj) == ii + 1

\* Variant: a placeholder name instead of the empty string.
PlaceholderPageName == <<"P","a","g","e"," ","1">>

\* `return ""` when no marker yields a name
NoPageName == Empty

MergedNode(p) == heap[merged_nodes[p]]

UnchangedByExtract ==
    UNCHANGED <<request, heap, nodes, merged_nodes, buffer_node, k,
                nodes_data, engine_calls, rows, responses>>

\* if not nodes: return ""
ExtractEmpty ==
    /\ pc = "merged" /\ merged_nodes = <<>>
    /\ page_name' = NoPageName
    /\ pc' = "prepare"
    /\ UNCHANGED <<i, j, page_depth>>
    /\ UnchangedByExtract

\* n = len(nodes); the outer loop starts at the first node
ExtractEnter ==
    /\ pc = "merged" /\ merged_nodes # <<>>
    /\ i' = 1
    /\ pc' = "extract"
    /\ UNCHANGED <<j, page_depth, page_name>>
    /\ UnchangedByExtract

\* not is_page_marker: continue
ExtractSkip ==
    /\ pc = "extract" /\ i <= Len(merged_nodes)
    /\ ~IsPageMarker(MergedNode(i))
    /\ i' = i + 1
    /\ UNCHANGED <<pc, j, page_depth, page_name>>
    /\ UnchangedByExtract

\* A page marker: page_depth = node.depth, j = i + 1
ExtractMarker ==
    /\ pc = "extract" /\ i <= Len(merged_nodes)
    /\ IsPageMarker(MergedNode(i))
    /\ page_depth' = MergedNode(i).depth
    /\ j' = i + 1
    /\ pc' = "subtree"
    /\ UNCHANGED <<i, page_name>>
    /\ UnchangedByExtract

InSubtree == j <= Len(merged_nodes) /\ ~LeftSubtree(MergedNode(j).depth, page_depth)

\* Variant: the caption is noted but the scan goes on with the next marker.
SubtreeCaptionNoReturn ==
    /\ pc = "subtree" /\ InSubtree
    /\ IsCaption(MergedNode(j))
    /\ page_name' = Strip(MergedNode(j).textPayload)
    /\ i' = i + 1
    /\ pc' = "extract"
    /\ UNCHANGED <<j, page_depth>>
    /\ UnchangedByExtract

\* A caption inside the subtree: return ntext
SubtreeCaption ==
    /\ pc = "subtree" /\ InSubtree
    /\ IsCaption(MergedNode(j))
    /\ page_name' = Strip(MergedNode(j).textPayload)
    /\ pc' = "prepare"
    /\ UNCHANGED <<i, j, page_depth>>
    /\ UnchangedByExtract

\* Any other node inside the subtree: j += 1
SubtreeNext ==
    /\ pc = "subtree" /\ InSubtree
    /\ ~IsCaption(MergedNode(j))
    /\ j' = j + 1
    /\ UNCHANGED <<pc, i, page_depth, page_name>>
    /\ UnchangedByExtract

\* Subtree left without a caption, and the marker has a name attribute:
\* return attr.value.strip()
MarkerAttrName ==
    /\ pc = "subtree" /\ ~InSubtree
    /\ FirstNameAttr(MergedNode(i).attributes) # None
    /\ LET attrs == MergedNode(i).attributes
       IN page_name' = Strip(attrs[FirstNameAttr(attrs)].value)
    /\ pc' = "prepare"
    /\ UNCHANGED <<i, j, page_depth>>
    /\ UnchangedByExtract

\* Subtree left without a caption and no name attribute: next outer iteration
MarkerFails ==
    /\ pc = "subtree" /\ ~InSubtree
    /\ FirstNameAttr(MergedNode(i).attributes) = None
    /\ i' = ResumeAfterFailure(i, j)
    /\ pc' = "extract"
    /\ UNCHANGED <<j, page_depth, page_name>>
    /\ UnchangedByExtract

\* The outer loop ran off the list: return ""
ExtractExhausted ==
    /\ pc = "extract" /\ i > Len(merged_nodes)
    /\ page_name' = NoPageName
    /\ pc' = "prepare"
    /\ UNCHANGED <<i, j, page_depth>>
    /\ UnchangedByExtract

----------------------------------------------------------------------------
\* llm_explain_nodes (after the two calls above) and explain_smartform

\* The dict built for one node in nodes_data
FlatNode(n) ==
    [elemName |-> n.elemName, path |-> n.path, nodeType |-> n.nodeType,
     depth |-> n.depth,
     attributes |-> [a \in 1..Len(n.attributes) |->
                        [name |-> n.attributes[a].name, value |-> n.attributes[a].value]],
     textPayload |-> n.textPayload]

\* nodes_data = [ {...} for n in merged_nodes ]; nodes_json = json.dumps(nodes_data)
PrepareNodesData ==
    /\ pc = "prepare"
    /\ nodes_data' = [p \in 1..Len(merged_nodes) |-> FlatNode(MergedNode(p))]
    /\ pc' = "invoke"
    /\ UNCHANGED <<request, heap, nodes, merged_nodes, buffer_node, k, i, j,
                   page_depth, page_name, engine_calls, rows, responses>>

\* Variant: an empty page name is replaced by a label before the hand-off.
InvokeArgsLabelled ==
    [nodes_json |-> nodes_data,
     page_name |-> IF page_name = Empty THEN PlaceholderPageName ELSE page_name]

\* The arguments of chain.invoke
InvokeArgs == [nodes_json |-> nodes_data, page_name |-> page_name]

\* chain.invoke(...) returns the parsed JSON
InvokeReturns ==
    /\ pc = "invoke"
    /\ engine_calls' = Append(engine_calls, InvokeArgs)
    /\ \E r \in EngineRows : rows' = r
    /\ pc' = "return"
    /\ UNCHANGED <<request, heap, nodes, merged_nodes, buffer_node, k, i, j,
                   page_depth, page_name, nodes_data, responses>>

\* Variant: a failed engine call is tried once more before giving up.
InvokeRaisesRetry ==
    /\ pc = "invoke"
    /\ engine_calls' = Append(engine_calls, InvokeArgs)
    /\ pc' = IF engine_calls = <<>> THEN "invoke" ELSE "except"
    /\ UNCHANGED <<request, heap, nodes, merged_nodes, buffer_node, k, i, j,
                   page_depth, page_name, nodes_data, rows, responses>>

\* chain.invoke(...) raises; explain_smartform's `except Exception` is entered
InvokeRaises ==
    /\ pc = "invoke"
    /\ engine_calls' = Append(engine_calls, InvokeArgs)
    /\ pc' = "except"
    /\ UNCHANGED <<request, heap, nodes, merged_nodes, buffer_node, k, i, j,
                   page_depth, page_name, nodes_data, rows, responses>>

\* return {"formName": ..., "system": ..., "client": ..., "field_table": rows}
ReturnResult ==
    /\ pc = "return"
    /\ responses' = Append(responses,
           [kind |-> "result",
            body |-> [formName |-> request.formName, system |-> request.system,
                      client |-> request.client, field_table |-> rows]])
    /\ pc' = "done"
    /\ UNCHANGED <<request, heap, nodes, merged_nodes, buffer_node, k, i, j,
                   page_depth, page_name, nodes_data, engine_calls, rows>>

\* raise HTTPException(status_code=502, detail=...)
RaiseHTTPException ==
    /\ pc = "except"
    /\ responses' = Append(responses,
           [kind |-> "HTTPException", status_code |-> StatusBadGateway])
    /\ pc' = "done"
    /\ UNCHANGED <<request, heap, nodes, merged_nodes, buffer_node, k, i, j,
                   page_depth, page_name, nodes_data, engine_calls, rows>>

Next ==
    \/ MergeItemStart
    \/ MergeItemAppend
    \/ MergeOther
    \/ MergeFinalFlush
    \/ ExtractEmpty
    \/ ExtractEnter
    \/ ExtractSkip
    \/ ExtractMarker
    \/ SubtreeCaption
    \/ SubtreeNext
    \/ MarkerAttrName
    \/ MarkerFails
    \/ ExtractExhausted
    \/ PrepareNodesData
    \/ InvokeReturns
    \/ InvokeRaises
    \/ ReturnResult
    \/ RaiseHTTPException

Spec == Init /\ [][Next]_vars

----------------------------------------------------------------------------
\* Vocabulary of the properties, stated over lists of node values and
\* independently of the operators the actions use.

Min(S) == CHOOSE x \in S : \A y \in S : x <= y

\* The request's node list as it was received, and the values now held by the
\* objects it refers to
InputNodes == request.nodes
LiveInput  == [p \in 1..Len(nodes) |-> heap[nodes[p]]]
\* The merged list, as values
Merged == [p \in 1..Len(merged_nodes) |-> heap[merged_nodes[p]]]

\* merge_consecutive_items has just returned / extract_page_name has just returned
MergeReturned == pc = "merged"
ExtractReturned == pc = "prepare"

NamedItem(n) == Upper(Strip(n.elemName)) = ITEM

\* p starts a maximal ITEM run or is a non-ITEM node
RunHead(L, p) == ~(NamedItem(L[p]) /\ p > 1 /\ NamedItem(L[p - 1]))
RunHeads(L) == {p \in 1..Len(L) : RunHead(L, p)}
\* last position of the maximal ITEM run that starts at p
RunEnd(L, p) ==
    CHOOSE r \in p..Len(L) :
        /\ \A q \in p..r : NamedItem(L[q])
        /\ r = Len(L) \/ ~NamedItem(L[r + 1])
NthHead(L, m) == CHOOSE p \in RunHeads(L) : Cardinality({q \in RunHeads(L) : q <= p}) = m

RECURSIVE JoinText(_, _, _)
JoinText(L, p, r) ==
    IF p = r THEN L[p].textPayload
    ELSE L[p].textPayload \o Newline \o JoinText(L, p + 1, r)

RECURSIVE ConcatAttributes(_, _, _)
ConcatAttributes(L, p, r) ==
    IF p = r THEN L[p].attributes
    ELSE L[p].attributes \o ConcatAttributes(L, p + 1, r)

\* The node the merged list must hold for the run head p
ExpectedAt(L, p) ==
    IF NamedItem(L[p])
    THEN [id |-> L[p].id, parentId |-> L[p].parentId, depth |-> L[p].depth,
          path |-> L[p].path, elemName |-> L[p].elemName, elemNs |-> L[p].elemNs,
          nodeType |-> L[p].nodeType,
          textPayload |-> JoinText(L, p, RunEnd(L, p)),
          attributes |-> ConcatAttributes(L, p, RunEnd(L, p))]
    ELSE L[p]

AdjacentItems(L) == \E p \in 1..(Len(L) - 1) : NamedItem(L[p]) /\ NamedItem(L[p + 1])

\* C1: merge_consecutive_items replaces each maximal run of consecutive ITEM
\* nodes, at the run's position, by one node with the first node's scalar
\* fields, the run's payloads joined by newlines and the run's attribute
\* lists concatenated; every other node is emitted unchanged and in order.
C1_MergeResult ==
    MergeReturned =>
        /\ Len(Merged) = Cardinality(RunHeads(InputNodes))
        /\ \A m \in 1..Len(Merged) :
              Merged[m] = ExpectedAt(InputNodes, NthHead(InputNodes, m))
        /\ (~\E p \in 1..Len(InputNodes) : NamedItem(InputNodes[p]))
              => Merged = InputNodes

\* C1 witness: a run of two ITEMs, a non-ITEM node, then a run left open at
\* the end of the input, all merged.
C1_Witness ==
    /\ MergeReturned
    /\ Len(InputNodes) = 4
    /\ NamedItem(InputNodes[1]) /\ NamedItem(InputNodes[2])
    /\ ~NamedItem(InputNodes[3]) /\ NamedItem(InputNodes[4])
    /\ InputNodes[1].textPayload # InputNodes[2].textPayload
    /\ Len(Merged) = 3

\* C2: the merged list is never longer than the input, and has the same
\* length exactly when no two adjacent input nodes are both ITEM nodes.
C2_MergeLength ==
    MergeReturned =>
        /\ Len(Merged) <= Len(InputNodes)
        /\ (Len(Merged) = Len(InputNodes)) <=> ~AdjacentItems(InputNodes)

\* C2 witness: adjacent ITEM nodes spelled differently, and a shorter output.
C2_Witness ==
    /\ MergeReturned
    /\ \E p \in 1..(Len(InputNodes) - 1) :
          /\ NamedItem(InputNodes[p]) /\ NamedItem(InputNodes[p + 1])
          /\ InputNodes[p].elemName # InputNodes[p + 1].elemName
    /\ Len(Merged) < Len(InputNodes)

RECURSIVE ConcatPayloads(_)
ConcatPayloads(L) ==
    IF L = <<>> THEN <<>> ELSE Head(L).textPayload \o ConcatPayloads(Tail(L))

\* The input payloads in order, with a newline at every merge point (between
\* two adjacent ITEM nodes)
RECURSIVE ConcatWithMergePoints(_, _)
ConcatWithMergePoints(L, p) ==
    IF p > Len(L) THEN <<>>
    ELSE L[p].textPayload
         \o (IF p < Len(L) /\ NamedItem(L[p]) /\ NamedItem(L[p + 1]) THEN Newline ELSE <<>>)
         \o ConcatWithMergePoints(L, p + 1)

\* C3: the merged payloads concatenated in output order are the input payloads
\* concatenated in input order with one newline per merge point: nothing is
\* lost, duplicated or reordered, the run open at the end of input included.
C3_ContentPreserved ==
    MergeReturned => ConcatPayloads(Merged) = ConcatWithMergePoints(InputNodes, 1)

\* C3 witness: the input ends inside a run of ITEMs with non-empty payloads.
C3_Witness ==
    /\ MergeReturned
    /\ Len(InputNodes) >= 3
    /\ NamedItem(InputNodes[Len(InputNodes)])
    /\ NamedItem(InputNodes[Len(InputNodes) - 1])
    /\ InputNodes[Len(InputNodes)].textPayload # Empty
    /\ InputNodes[Len(InputNodes) - 1].textPayload # Empty
    /\ ~NamedItem(InputNodes[1])

----------------------------------------------------------------------------
\* Page name vocabulary

MarkerNode(n) ==
    \/ Upper(Strip(n.elemName)) = PAGE
    \/ Upper(Strip(n.elemName)) = NODETYPE /\ Upper(Strip(n.textPayload)) = PA
    \/ Upper(Strip(n.nodeType)) = PA

CaptionNode(n) ==
    /\ Upper(Strip(n.elemName)) \in {CAPTION, INAME}
    /\ Strip(n.textPayload) # Empty

NameAttribute(a) ==
    /\ Lower(Strip(a.name)) \in NameKeys
    /\ Strip(a.value) # Empty

Markers(L) == {m \in 1..Len(L) : MarkerNode(L[m])}

\* First position after m whose depth is <= the depth of m (Len(L) + 1 if none)
Boundary(L, m) ==
    Min({q \in (m + 1)..Len(L) : L[q].depth <= L[m].depth} \cup {Len(L) + 1})

\* Captions strictly between the marker and its boundary
CaptionsOf(L, m) == {q \in (m + 1)..(Boundary(L, m) - 1) : CaptionNode(L[q])}

NameAttributesOf(n) == {a \in 1..Len(n.attributes) : NameAttribute(n.attributes[a])}

\* The name the marker at m yields; Empty when it yields none
YieldOf(L, m) ==
    IF CaptionsOf(L, m) # {}
    THEN Strip(L[Min(CaptionsOf(L, m))].textPayload)
    ELSE IF NameAttributesOf(L[m]) # {}
         THEN Strip(L[m].attributes[Min(NameAttributesOf(L[m]))].value)
         ELSE Empty

Yielding(L) == {m \in Markers(L) : YieldOf(L, m) # Empty}

\* C4: first-match-wins: extract_page_name returns the name of the first page
\* marker in document order that yields one, and stops at that marker.
C4_FirstMatchWins ==
    (ExtractReturned /\ Yielding(Merged) # {}) =>
        /\ i = Min(Yielding(Merged))
        /\ page_name = YieldOf(Merged, Min(Yielding(Merged)))

\* C4 witness: two page markers with different caption descendants; the first
\* one's caption was returned.
C4_Witness ==
    /\ ExtractReturned
    /\ \E m1, m2 \in Markers(Merged) :
          /\ m1 < m2
          /\ CaptionsOf(Merged, m1) # {} /\ CaptionsOf(Merged, m2) # {}
          /\ YieldOf(Merged, m1) # YieldOf(Merged, m2)
          /\ page_name = YieldOf(Merged, m1)

\* C5: no fabrication: a non-empty result is the trimmed payload of a
\* CAPTION/INAME node or the trimmed value of a name/iname/caption attribute
\* of a page marker; without any page marker (or for the empty list) the
\* result is the empty string.
C5_NoFabrication ==
    ExtractReturned =>
        /\ page_name # Empty =>
              \/ \E q \in 1..Len(Merged) :
                    /\ Upper(Strip(Merged[q].elemName)) \in {CAPTION, INAME}
                    /\ page_name = Strip(Merged[q].textPayload)
              \/ \E m \in Markers(Merged) : \E a \in NameAttributesOf(Merged[m]) :
                    page_name = Strip(Merged[m].attributes[a].value)
        /\ Markers(Merged) = {} => page_name = Empty

\* C5 witness: captions with text but no page marker at all: the result is
\* the empty string.
C5_Witness ==
    /\ ExtractReturned
    /\ Markers(Merged) = {}
    /\ \E q \in 1..Len(Merged) : CaptionNode(Merged[q])
    /\ page_name = Empty

----------------------------------------------------------------------------
\* Endpoint and hand-off

\* C6: one request makes exactly one engine call; a failed call ends the
\* request in a single HTTPException with status 502 and no result body, with
\* no second call; a successful call ends it in exactly one result carrying
\* the engine's rows.
C6_OneCallOneOutcome ==
    /\ Len(engine_calls) <= 1
    /\ Len(responses) <= 1
    /\ pc \in {"return", "except", "done"} => Len(engine_calls) = 1
    /\ pc = "except" => rows = "none"
    /\ pc = "done" =>
          /\ Len(responses) = 1
          /\ rows = "none" =>
                responses[1] = [kind |-> "HTTPException", status_code |-> 502]
          /\ rows # "none" =>
                /\ responses[1].kind = "result"
                /\ responses[1].body.field_table = rows

\* C6 witness: the engine call failed and the request ended in the 502.
C6_Witness ==
    /\ pc = "done"
    /\ rows = "none"
    /\ Len(engine_calls) = 1
    /\ responses = <<[kind |-> "HTTPException", status_code |-> 502]>>

\* C7: the request's node list is read-only: the list keeps its length and
\* order and every input node keeps all its field values throughout, and
\* extract_page_name changes neither the merged list nor any node.
C7_InputReadOnly ==
    /\ [](/\ nodes = [p \in 1..Len(InputNodes) |-> p]
          /\ LiveInput = InputNodes)
    /\ [][(pc \in {"merged", "extract", "subtree"}) =>
             (merged_nodes' = merged_nodes /\ heap' = heap)]_vars

\* C7 witness: a run of ITEMs with payloads and attributes was merged and the
\* page name was resolved.
C7_Witness ==
    /\ ExtractReturned
    /\ Len(InputNodes) >= 2
    /\ NamedItem(InputNodes[1]) /\ NamedItem(InputNodes[2])
    /\ InputNodes[2].textPayload # Empty
    /\ InputNodes[2].attributes # <<>>
    /\ Merged[1].textPayload # InputNodes[1].textPayload
    /\ LiveInput[1] = InputNodes[1]

EngineCalled == Len(engine_calls) = 1

\* C8 as stated: the engine is given the merged nodes themselves, no field
\* changed or removed, and the page name extract_page_name returned.
C8_HandOffUnmodified ==
    EngineCalled =>
        /\ engine_calls[1].nodes_json = Merged
        /\ engine_calls[1].page_name = page_name

HandedFields == {"elemName", "path", "nodeType", "depth", "attributes", "textPayload"}

\* C8 amended: the engine is given one entry per merged node, in the merged
\* order, none added or dropped, each holding the node's elemName, path,
\* nodeType, depth, attributes and textPayload unchanged (id, parentId and
\* elemNs are left out), and the page name is the one resolved from the merged
\* list, the empty string staying empty.
C8_HandOffProjected ==
    EngineCalled =>
        /\ Len(engine_calls[1].nodes_json) = Len(Merged)
        /\ \A p \in 1..Len(Merged) :
              /\ DOMAIN engine_calls[1].nodes_json[p] = HandedFields
              /\ \A f \in HandedFields :
                    engine_calls[1].nodes_json[p][f] = Merged[p][f]
        /\ engine_calls[1].page_name =
              (IF Yielding(Merged) = {} THEN Empty
               ELSE YieldOf(Merged, Min(Yielding(Merged))))

\* C8 witness: the engine was called with a list holding a merged ITEM node
\* and an empty page name.
C8_Witness ==
    /\ EngineCalled
    /\ Len(Merged) >= 2
    /\ Len(Merged) < Len(InputNodes)
    /\ engine_calls[1].page_name = Empty

====
